---- MODULE Spec2Model ----
(***************************************************************************)
(* A model of bao's verified streaming decoder (src/src/decode.rs): the    *)
(* decode state machine `State` and the streaming `Reader` that binds it   *)
(* to a seekable byte source.                                              *)
(*                                                                         *)
(* Scaling.  The machine word (u64 / usize) is WordBits wide, a chunk is   *)
(* 2^ChunkBits bytes.  One cell of the encoding stands for one byte of a   *)
(* chunk, for the whole header (HEADER_SIZE = 1 cell instead of 8 bytes)   *)
(* or for one whole hash (HASH_SIZE = 1 cell instead of 32 bytes).  A cell *)
(* is a sequence of integers.  hash_node is a free (injective) constructor:*)
(* the node hash is assumed collision-free.                                *)
(***************************************************************************)
EXTENDS Integers, Sequences, FiniteSets, TLC

\* ---------------------------------------------------------------- bounds
\* width of u64 / usize in the model (64 in the program)
WordBits == 4
\* log2 of the chunk size in the model (12 in the program: CHUNK_SIZE 4096)
ChunkBits == 2

RECURSIVE Pow2(_)
Pow2(n) == IF n = 0 THEN 1 ELSE 2 * Pow2(n - 1)

U64_MAX == Pow2(WordBits) - 1
I64_MIN == 0 - Pow2(WordBits - 1)
I64_MAX == Pow2(WordBits - 1) - 1

\* ------------------------------------------------- constants of hash.rs
CHUNK_SIZE == Pow2(ChunkBits)
HASH_SIZE == 1
PARENT_SIZE == 2 * HASH_SIZE
HEADER_SIZE == 1
\* log2(2^64 / CHUNK_SIZE)
MAX_DEPTH == WordBits - ChunkBits

Min(a, b) == IF a < b THEN a ELSE b
Max(a, b) == IF a < b THEN b ELSE a

\* Checked / wrapping machine arithmetic: a result outside the word panics
\* in a build with overflow checks and wraps in a build without.
Overflows(x) == x < 0 \/ x > U64_MAX
Wrap(x) == x % (U64_MAX + 1)

\* ------------------------------------------------------------- hashing
NotRoot == <<0, 0>>
Root(len) == <<1, len>>

RECURSIVE Flatten(_)
Flatten(cells) ==
    IF cells = <<>> THEN <<>>
    ELSE <<Len(Head(cells))>> \o Head(cells) \o Flatten(Tail(cells))

\* hash::hash_node(bytes, finalization): a length-prefixed serialisation of
\* its arguments, hence injective in the bytes and in the finalization.
hash_node(cells, finalization) ==
    <<finalization[1], finalization[2], Len(cells)>> \o Flatten(cells)

\* hash::decode_len(header): the header cell holds the length.
decode_len(header) == header[1][1]

\* -------------------------------------------------------- tree geometry
RECURSIVE LargestPow2Below(_, _)
\* the largest p * 2^k that is strictly less than L
LargestPow2Below(p, L) == IF 2 * p < L THEN LargestPow2Below(2 * p, L) ELSE p

\* hash::left_len(L), L > CHUNK_SIZE
left_len(L) == LargestPow2Below(CHUNK_SIZE, L)

chunk_count(C) == IF C = 0 THEN 1 ELSE (C + CHUNK_SIZE - 1) \div CHUNK_SIZE

\* encode::encoded_subtree_size(len): u128
encoded_subtree_size(len) ==
    IF len = 0 THEN 0 ELSE len + PARENT_SIZE * (chunk_count(len) - 1)

encoded_size(C) == HEADER_SIZE + encoded_subtree_size(C)

\* ------------------------------------------------------------- encoder
\* tests' make_input: a counter, so that every byte differs from the next
make_input(len) == [i \in 1..len |-> i]

ChunkCells(X, start, end) == [i \in 1..(end - start) |-> <<X[start + i]>>]

RECURSIVE subtree_hash(_, _, _, _)
subtree_hash(X, start, end, finalization) ==
    IF end - start <= CHUNK_SIZE
    THEN hash_node(ChunkCells(X, start, end), finalization)
    ELSE LET split == start + left_len(end - start)
         IN hash_node(<<subtree_hash(X, start, split, NotRoot),
                        subtree_hash(X, split, end, NotRoot)>>, finalization)

RECURSIVE encode_subtree(_, _, _)
encode_subtree(X, start, end) ==
    IF end - start <= CHUNK_SIZE
    THEN ChunkCells(X, start, end)
    ELSE LET split == start + left_len(end - start)
         IN <<subtree_hash(X, start, split, NotRoot),
              subtree_hash(X, split, end, NotRoot)>>
            \o encode_subtree(X, start, split) \o encode_subtree(X, split, end)

\* encode::encode(X): the combined encoding and the root hash
encode(X) == <<<<Len(X)>>>> \o encode_subtree(X, 0, Len(X))
bao_hash(X) == subtree_hash(X, 0, Len(X), Root(Len(X)))

\* ------------------------------------------------------ the build, the run
VARIABLES
    overflow_checks    \* the build: TRUE panics on integer overflow, FALSE wraps

\* ---------------------------------------------------------------- State
\* content_length: Option<u64>
None == 0 - 1

\* StateNext; kind "Panic" stands for the call not returning
Ev(kind, size, skip, finalization, msg) ==
    [kind |-> kind, size |-> size, skip |-> skip,
     finalization |-> finalization, msg |-> msg]
Header == Ev("Header", 0, 0, NotRoot, "")
Done == Ev("Done", 0, 0, NotRoot, "")
Panic(msg) == Ev("Panic", 0, 0, NotRoot, msg)

Top(stack) == stack[Len(stack)]
Pop(stack) == SubSeq(stack, 1, Len(stack) - 1)

\* State::new
State_new(root_hash) ==
    [stack |-> <<>>, root_hash |-> root_hash, content_length |-> None,
     length_verified |-> FALSE, content_position |-> 0, encoded_offset |-> 0]

\* State::position
position(st) == st.content_position

\* a reset_to_root that leaves encoded_offset where it was
reset_to_root_KeepOffset(st) ==
    [st EXCEPT !.content_position = 0,
               !.stack = <<[hash |-> st.root_hash, start |-> 0,
                            end |-> st.content_length]>>]

\* State::reset_to_root (content_length is Some at every call site)
reset_to_root(st) ==
    [st EXCEPT !.content_position = 0,
               !.encoded_offset = HEADER_SIZE,
               !.stack = <<[hash |-> st.root_hash, start |-> 0,
                            end |-> st.content_length]>>]

\* Subtree::len
Subtree_len(sub) == sub.end - sub.start

\* an is_root that takes every subtree ending at content_length for the root
is_root_AnyStart(sub, content_length) == sub.end = content_length

\* Subtree::is_root
is_root(sub, content_length) == sub.start = 0 /\ sub.end = content_length

\* a finalization that does not tell the root node from an inner node
finalization_NotRoot(sub, content_length) == NotRoot

\* Subtree::finalization
finalization(sub, content_length) ==
    IF is_root(sub, content_length) THEN Root(Subtree_len(sub)) ELSE NotRoot

\* Subtree::state_next; `wrapped` in the result: the subtraction wrapped
state_next(sub, content_length, content_position) ==
    LET skip == content_position - sub.start
    IN IF Overflows(skip) /\ overflow_checks
       THEN [ev |-> Panic("attempt to subtract with overflow"), wrapped |-> FALSE]
       ELSE [ev |-> Ev(IF Subtree_len(sub) <= CHUNK_SIZE THEN "Chunk" ELSE "Subtree",
                       Subtree_len(sub), Wrap(skip),
                       finalization(sub, content_length), ""),
             wrapped |-> Overflows(skip)]

\* a len_next that reports the length as soon as the header is fed
len_next_Unverified(st) ==
    IF st.content_length # None
    THEN [left |-> TRUE, len |-> st.content_length, next |-> Done, wrapped |-> FALSE]
    ELSE [left |-> FALSE, len |-> 0, next |-> Header, wrapped |-> FALSE]

\* State::len_next: Left(len) or Right(next)
len_next(st) ==
    IF st.content_length # None
    THEN IF st.length_verified
         THEN [left |-> TRUE, len |-> st.content_length, next |-> Done,
               wrapped |-> FALSE]
         ELSE IF st.stack = <<>>
              THEN [left |-> FALSE, len |-> 0, next |-> Panic("unverified EOF"),
                    wrapped |-> FALSE]
              ELSE LET n == state_next(Top(st.stack), st.content_length,
                                       st.content_position)
                   IN [left |-> FALSE, len |-> 0, next |-> n.ev,
                       wrapped |-> n.wrapped]
    ELSE [left |-> FALSE, len |-> 0, next |-> Header, wrapped |-> FALSE]

\* State::read_next
read_next(st) ==
    LET l == len_next(st)
    IN IF ~l.left THEN [ev |-> l.next, wrapped |-> l.wrapped]
       ELSE IF st.stack # <<>>
            THEN state_next(Top(st.stack), l.len, st.content_position)
            ELSE [ev |-> Done, wrapped |-> FALSE]

\* the main loop of State::seek_next (lines 115-137)
RECURSIVE seek_next_loop(_, _, _, _)
seek_next_loop(st, target, content_length, wrapped) ==
    IF st.stack = <<>>
    THEN [st |-> st, offset |-> st.encoded_offset, next |-> Done, wrapped |-> wrapped]
    ELSE LET cur == Top(st.stack)
             first_chunk_end == cur.start + CHUNK_SIZE
         IN IF Overflows(first_chunk_end) /\ overflow_checks
            THEN [st |-> st, offset |-> st.encoded_offset,
                  next |-> Panic("attempt to add with overflow"), wrapped |-> wrapped]
            ELSE IF target < Wrap(first_chunk_end)
            THEN [st |-> st, offset |-> st.encoded_offset, next |-> Done,
                  wrapped |-> wrapped \/ Overflows(first_chunk_end)]
            ELSE IF target < cur.end
            THEN LET n == state_next(cur, content_length, st.content_position)
                 IN [st |-> st, offset |-> st.encoded_offset, next |-> n.ev,
                     wrapped |-> wrapped \/ n.wrapped \/ Overflows(first_chunk_end)]
            ELSE seek_next_loop(
                     [st EXCEPT !.encoded_offset = @ + encoded_subtree_size(Subtree_len(cur)),
                                !.stack = Pop(@)],
                     target, content_length,
                     wrapped \/ Overflows(first_chunk_end))

\* the resets of State::seek_next (lines 98-110), on a state that has recorded
\* the target; "Done" when the call returns at line 101
seek_next_reset(st, target, content_length) ==
    IF st.stack = <<>>
    THEN IF target >= content_length THEN [done |-> TRUE, st |-> st]
         ELSE [done |-> FALSE, st |-> reset_to_root(st)]
    ELSE IF target < Top(st.stack).start
         THEN [done |-> FALSE, st |-> reset_to_root(st)]
         ELSE [done |-> FALSE, st |-> st]

\* State::seek_next(content_position) -> (encoded_offset, next)
seek_next(st, target) ==
    LET l == len_next(st)
    IN IF ~l.left
       THEN [st |-> st, offset |-> st.encoded_offset, next |-> l.next,
             wrapped |-> l.wrapped]
       ELSE LET r == seek_next_reset([st EXCEPT !.content_position = target],
                                     target, l.len)
            IN IF r.done
               THEN [st |-> r.st, offset |-> r.st.encoded_offset, next |-> Done,
                     wrapped |-> FALSE]
               ELSE seek_next_loop(r.st, target, l.len, FALSE)

\* a feed_header that takes a second header
feed_header_Again(st, header) ==
    [st |-> reset_to_root([st EXCEPT !.content_length = decode_len(header)]),
     res |-> "Ok", msg |-> ""]

\* State::feed_header
feed_header(st, header) ==
    IF st.content_length # None
    THEN [st |-> st, res |-> "Panic", msg |-> "second call to feed_header"]
    ELSE [st |-> reset_to_root([st EXCEPT !.content_length = decode_len(header)]),
          res |-> "Ok", msg |-> ""]

\* ArrayVec::push on the stack of capacity MAX_DEPTH
CanPush(stack) == Len(stack) < MAX_DEPTH

\* a feed_parent that pushes the left child first, below the right one
feed_parent_LeftFirst(st, parent) ==
    IF st.content_length = None \/ st.stack = <<>>
    THEN [st |-> st, res |-> "Panic", msg |-> "feed_parent before header"]
    ELSE LET cur == Top(st.stack) IN
    IF Subtree_len(cur) <= CHUNK_SIZE
    THEN [st |-> st, res |-> "Panic", msg |-> "too many calls to feed_parent"]
    ELSE IF hash_node(parent, finalization(cur, st.content_length)) # cur.hash
    THEN [st |-> st, res |-> "Err", msg |-> ""]
    ELSE LET split == cur.start + left_len(Subtree_len(cur))
             left_subtree == [hash |-> parent[1], start |-> cur.start, end |-> split]
             right_subtree == [hash |-> parent[2], start |-> split, end |-> cur.end]
         IN IF Len(st.stack) >= MAX_DEPTH
            THEN [st |-> st, res |-> "Panic", msg |-> "ArrayVec: capacity exceeded in push"]
            ELSE [st |-> [st EXCEPT !.stack = Pop(@) \o <<left_subtree, right_subtree>>,
                                    !.encoded_offset = @ + PARENT_SIZE,
                                    !.length_verified = TRUE],
                  res |-> "Ok", msg |-> ""]

\* State::feed_parent
feed_parent(st, parent) ==
    IF st.content_length = None
    THEN [st |-> st, res |-> "Panic", msg |-> "feed_parent before header"]
    ELSE IF st.stack = <<>>
    THEN [st |-> st, res |-> "Panic", msg |-> "feed_parent after EOF"]
    ELSE LET cur == Top(st.stack) IN
    IF Subtree_len(cur) <= CHUNK_SIZE
    THEN [st |-> st, res |-> "Panic", msg |-> "too many calls to feed_parent"]
    ELSE IF hash_node(parent, finalization(cur, st.content_length)) # cur.hash
    THEN [st |-> st, res |-> "Err", msg |-> ""]
    ELSE LET split == cur.start + left_len(Subtree_len(cur))
             left_subtree == [hash |-> parent[1], start |-> cur.start, end |-> split]
             right_subtree == [hash |-> parent[2], start |-> split, end |-> cur.end]
             popped == Pop(st.stack)
         IN IF ~CanPush(popped) \/ ~CanPush(Append(popped, right_subtree))
            THEN [st |-> st, res |-> "Panic", msg |-> "ArrayVec: capacity exceeded in push"]
            ELSE [st |-> [st EXCEPT !.stack = popped \o <<right_subtree, left_subtree>>,
                                    !.encoded_offset = @ + PARENT_SIZE,
                                    !.length_verified = TRUE],
                  res |-> "Ok", msg |-> ""]

\* a feed_subtree that takes any hash for the expected one
feed_subtree_Unchecked(st, subtree) ==
    IF st.stack = <<>>
    THEN [st |-> st, res |-> "Panic", msg |-> "feed_subtree after EOF"]
    ELSE [st |-> [st EXCEPT !.stack = Pop(@),
                            !.content_position = Top(st.stack).end,
                            !.encoded_offset =
                                @ + encoded_subtree_size(Subtree_len(Top(st.stack))),
                            !.length_verified = TRUE],
          res |-> "Ok", msg |-> ""]

\* a feed_subtree that pops without moving the content position
feed_subtree_KeepPosition(st, subtree) ==
    IF st.stack = <<>> \/ subtree # Top(st.stack).hash
    THEN [st |-> st, res |-> "Err", msg |-> ""]
    ELSE [st |-> [st EXCEPT !.stack = Pop(@),
                            !.encoded_offset =
                                @ + encoded_subtree_size(Subtree_len(Top(st.stack))),
                            !.length_verified = TRUE],
          res |-> "Ok", msg |-> ""]

\* a feed_subtree that pops the subtree whose hash it refuses
feed_subtree_ErrPops(st, subtree) ==
    IF st.stack = <<>>
    THEN [st |-> st, res |-> "Panic", msg |-> "feed_subtree after EOF"]
    ELSE IF subtree # Top(st.stack).hash
    THEN [st |-> [st EXCEPT !.stack = Pop(@)], res |-> "Err", msg |-> ""]
    ELSE [st |-> [st EXCEPT !.stack = Pop(@),
                            !.content_position = Top(st.stack).end,
                            !.encoded_offset =
                                @ + encoded_subtree_size(Subtree_len(Top(st.stack))),
                            !.length_verified = TRUE],
          res |-> "Ok", msg |-> ""]

\* State::feed_subtree
feed_subtree(st, subtree) ==
    IF st.stack = <<>>
    THEN [st |-> st, res |-> "Panic", msg |-> "feed_subtree after EOF"]
    ELSE LET cur == Top(st.stack) IN
    IF subtree # cur.hash
    THEN [st |-> st, res |-> "Err", msg |-> ""]
    ELSE [st |-> [st EXCEPT !.stack = Pop(@),
                            !.content_position = cur.end,
                            !.encoded_offset = @ + encoded_subtree_size(Subtree_len(cur)),
                            !.length_verified = TRUE],
          res |-> "Ok", msg |-> ""]

\* --------------------------------------------------------------- Reader
VARIABLES
    encoded            \* the bytes of the inner source, one cell each

\* A Reader in the operators below is a record
\*   state, inner_pos, buf, buf_start, buf_end   the fields of Reader
\*   bufv      per cell of buf: it holds a byte of a chunk feed_subtree accepted
\*   wrapped   some machine arithmetic has wrapped around
\*   desync    a header, parent or chunk was read from the inner source at a
\*             position other than state.encoded_offset
\* and a call's result is [rd, kind, val, err, msg, out, target]: the reader
\* after the call, "Ok" / "Err" / "Panic" / "Hang", the value returned, the
\* error's kind, the panic's message, the cells copied to the caller and the
\* absolute position a seek computed.
\* (An operator named f_k continues f with a value f has computed.)
Res(rd, kind, val, err, msg, out) ==
    [rd |-> rd, kind |-> kind, val |-> val, err |-> err, msg |-> msg, out |-> out,
     target |-> None]
Ok(rd, val) == Res(rd, "Ok", val, "", "", <<>>)
Err(rd, err) == Res(rd, "Err", 0, err, "", <<>>)
Panicked(rd, msg) == Res(rd, "Panic", 0, "", msg, <<>>)

\* Reader::new
Reader_new(root_hash) ==
    [state |-> State_new(root_hash), inner_pos |-> 0,
     buf |-> [i \in 1..CHUNK_SIZE |-> <<0>>], buf_start |-> 0, buf_end |-> 0,
     bufv |-> [i \in 1..CHUNK_SIZE |-> FALSE], wrapped |-> FALSE,
     desync |-> FALSE]

\* the reader about to read from its inner source
Sync(rd) == [rd EXCEPT !.desync = @ \/ rd.inner_pos # rd.state.encoded_offset]

\* Read::read_exact on the inner source (the default method of the Read
\* trait): the cells read, or an unexpected EOF after the cells that were
\* left have been consumed and copied
inner_read_exact(pos, n) ==
    IF n <= Len(encoded) - pos
    THEN [ok |-> TRUE, cells |-> SubSeq(encoded, pos + 1, pos + n), pos |-> pos + n]
    ELSE [ok |-> FALSE, cells |-> SubSeq(encoded, pos + 1, Len(encoded)),
          pos |-> Max(pos, Len(encoded))]

\* Reader::buf_len: [len, panic, wrapped]
buf_len(rd) ==
    [len |-> Wrap(rd.buf_end - rd.buf_start),
     panic |-> Overflows(rd.buf_end - rd.buf_start) /\ overflow_checks,
     wrapped |-> Overflows(rd.buf_end - rd.buf_start)]

\* into_io
into_io(rd, f) ==
    IF f.res = "Panic" THEN Panicked(rd, f.msg)
    ELSE IF f.res = "Err" THEN Err(rd, "InvalidData")
    ELSE Ok([rd EXCEPT !.state = f.st], 0)

\* Reader::read_header
read_header_k(rd, r) ==
    IF ~r.ok THEN Err([rd EXCEPT !.inner_pos = r.pos], "UnexpectedEof")
    ELSE into_io([rd EXCEPT !.inner_pos = r.pos], feed_header(rd.state, r.cells))
read_header(rd) == read_header_k(Sync(rd), inner_read_exact(rd.inner_pos, HEADER_SIZE))

\* Reader::read_parent
read_parent_k(rd, r) ==
    IF ~r.ok THEN Err([rd EXCEPT !.inner_pos = r.pos], "UnexpectedEof")
    ELSE into_io([rd EXCEPT !.inner_pos = r.pos], feed_parent(rd.state, r.cells))
read_parent(rd) == read_parent_k(Sync(rd), inner_read_exact(rd.inner_pos, PARENT_SIZE))

\* Reader::read_chunk, lines 297-299
read_chunk_fed(f, size, skip) ==
    IF f.kind # "Ok" THEN f
    ELSE Ok([f.rd EXCEPT !.buf_start = skip, !.buf_end = size,
                         !.bufv = [i \in 1..CHUNK_SIZE |-> i <= size \/ @[i]]],
            0)

\* Reader::read_chunk, lines 295-296, on the reader that has read the cells
read_chunk_read(rd, ok, size, skip, fin) ==
    IF ~ok THEN Err(rd, "UnexpectedEof")
    ELSE read_chunk_fed(
             into_io(rd, feed_subtree(rd.state, hash_node(SubSeq(rd.buf, 1, size), fin))),
             size, skip)

\* Reader::read_chunk, lines 292-294
read_chunk_k(rd, r, size, skip, fin) ==
    read_chunk_read(
        [rd EXCEPT !.buf_start = 0, !.buf_end = 0, !.inner_pos = r.pos,
                   !.buf = [i \in 1..CHUNK_SIZE |->
                               IF i <= Len(r.cells) THEN r.cells[i] ELSE @[i]],
                   !.bufv = [i \in 1..CHUNK_SIZE |-> i > Len(r.cells) /\ @[i]]],
        r.ok, size, skip, fin)
read_chunk(rd, size, skip, fin) ==
    read_chunk_k(Sync(rd), inner_read_exact(rd.inner_pos, size), size, skip, fin)

\* one event supplied from the inner source, as read and seek both do
supply(rd, ev) ==
    IF ev.kind = "Header" THEN read_header(rd)
    ELSE IF ev.kind = "Subtree" THEN read_parent(rd)
    ELSE read_chunk(rd, ev.size, ev.skip, ev.finalization)

Wrapped(rd, w) == IF w THEN [rd EXCEPT !.wrapped = TRUE] ELSE rd

\* the loop of Reader::read (lines 306-319)
RECURSIVE read_loop(_)
read_loop_fed(r) == IF r.kind # "Ok" THEN r ELSE read_loop(r.rd)
read_loop_k(rd, n) ==
    IF n.ev.kind = "Panic" THEN Panicked(rd, n.ev.msg)
    ELSE IF n.ev.kind = "Done" THEN Ok(Wrapped(rd, n.wrapped), 0)
    ELSE read_loop_fed(supply(Wrapped(rd, n.wrapped), n.ev))
read_loop(rd) == read_loop_k(rd, read_next(rd.state))

\* Reader::read(buf), buf.len() = n
read_k(rd, n, bl) ==
    IF bl.panic THEN Panicked(rd, "attempt to subtract with overflow")
    ELSE IF bl.len = 0 THEN read_loop(rd)
    ELSE IF rd.buf_start + Min(bl.len, n) > CHUNK_SIZE
    THEN Panicked(Wrapped(rd, bl.wrapped), "slice index out of range")
    ELSE Res([Wrapped(rd, bl.wrapped) EXCEPT !.buf_start = @ + Min(bl.len, n)],
             "Ok", Min(bl.len, n), "", "",
             SubSeq(rd.buf, rd.buf_start + 1, rd.buf_start + Min(bl.len, n)))
read(rd, n) == read_k(rd, n, buf_len(rd))

\* cast_offset
cast_offset(offset) == [ok |-> offset <= U64_MAX, val |-> offset]

\* an add_offset in u64 arithmetic that wraps around
add_offset_Wrapping(pos, offset) ==
    [ok |-> TRUE, val |-> (pos + offset) % (U64_MAX + 1)]

\* add_offset
add_offset(pos, offset) ==
    [ok |-> ~(pos + offset < 0) /\ ~(pos + offset > U64_MAX), val |-> pos + offset]

\* the first loop of Reader::seek (lines 331-343): the verified length
RECURSIVE seek_len_loop(_)
seek_len_loop_fed(r) == IF r.kind # "Ok" THEN r ELSE seek_len_loop(r.rd)
seek_len_loop_k(rd, l) ==
    IF l.left THEN Ok(rd, l.len)
    ELSE IF l.next.kind = "Panic" THEN Panicked(rd, l.next.msg)
    ELSE IF l.next.kind = "Done" THEN Panicked(rd, "unreachable")
    ELSE seek_len_loop_fed(supply(Wrapped(rd, l.wrapped), l.next))
seek_len_loop(rd) == seek_len_loop_k(rd, len_next(rd.state))

\* the last loop of Reader::seek (lines 353-373); `seen`: the readers the loop
\* has been in, so that a loop that never ends is reported as "Hang"
RECURSIVE seek_loop(_, _, _)
seek_loop_fed(r, target, seen) ==
    IF r.kind # "Ok" THEN r ELSE seek_loop(r.rd, target, seen)
seek_loop_at(rd, next, target, seen) ==
    IF next.kind = "Done" THEN Ok(rd, position(rd.state))
    ELSE seek_loop_fed(supply(rd, next), target, seen)
seek_loop_k(rd, s, target, seen) ==
    IF s.next.kind = "Panic"
    THEN Panicked([rd EXCEPT !.state = s.st], s.next.msg)
    ELSE IF ~cast_offset(s.offset).ok
    THEN Err(Wrapped([rd EXCEPT !.state = s.st], s.wrapped), "Other")
    ELSE seek_loop_at(Wrapped([rd EXCEPT !.state = s.st,
                                          !.inner_pos = cast_offset(s.offset).val],
                              s.wrapped),
                      s.next, target, seen \cup {rd})
seek_loop(rd, target, seen) ==
    IF rd \in seen THEN Res(rd, "Hang", 0, "", "", <<>>)
    ELSE seek_loop_k(rd, seek_next(rd.state, target), target, seen)

\* SeekFrom
SeekStart(n) == [from |-> "Start", n |-> n]
SeekEnd(n) == [from |-> "End", n |-> n]
SeekCurrent(n) == [from |-> "Current", n |-> n]

\* the absolute position (lines 346-350)
seek_position(rd, content_length, pos) ==
    IF pos.from = "Start" THEN [ok |-> TRUE, val |-> pos.n]
    ELSE IF pos.from = "End" THEN add_offset(content_length, pos.n)
    ELSE add_offset(position(rd.state), pos.n)

\* Reader::seek(pos)
seek_to(rd, p) ==
    IF ~p.ok THEN Err(rd, "InvalidInput")
    ELSE [seek_loop(rd, p.val, {}) EXCEPT !.target = p.val]
seek_k(l, pos) ==
    IF l.kind # "Ok" THEN l ELSE seek_to(l.rd, seek_position(l.rd, l.val, pos))
seek(rd, pos) == seek_k(seek_len_loop(rd), pos)

\* ------------------------------------------------------------ the system
VARIABLES
    \* State
    stack, root_hash, content_length, length_verified, content_position,
    encoded_offset,
    \* Reader
    inner_pos, buf, buf_start, buf_end,
    \* what the run is about: the content's length and how the input was
    \* tampered with ("none", "hash", "encoding")
    input_len, tamper,
    \* history
    bufv,              \* see the Reader record
    wrapped,           \* see the Reader record
    status,            \* "ok", or "panic" / "hang" once a call did not return
    last,              \* the last call and its result
    delivered,         \* the cells read() has copied out since new() or the last seek() call
    eof_at,            \* Len(delivered) when read() first returned 0 since then, or None
    history,           \* the calls so far: "new" (none), "read1" (one read()),
                       \* "reads" (several read()), "seek_first" (a seek() that
                       \* returned Ok, then only read()), "other"
    seek_target,       \* the absolute position of the last seek() call, if it
                       \* returned Ok, else None
    unverified_out,    \* read() has copied out a cell that is not a verified byte of
                       \* buf[buf_start..buf_end]
    root_matched,      \* (a State driven directly) a feed has matched the root node
    desync,            \* see the Reader record
    cli,               \* (the command line tool) the command, what its steps meet
                       \* and how it ends
    events             \* (a State driven in sequence) the events read_next has
                       \* returned and the driver has served

vars == <<overflow_checks, encoded,
          stack, root_hash, content_length, length_verified, content_position,
          encoded_offset, inner_pos, buf, buf_start, buf_end,
          input_len, tamper, bufv, wrapped, status, last, delivered, eof_at,
          history, seek_target, unverified_out, root_matched, desync, cli,
          events>>

\* the State and the Reader the variables hold
TheState ==
    [stack |-> stack, root_hash |-> root_hash, content_length |-> content_length,
     length_verified |-> length_verified, content_position |-> content_position,
     encoded_offset |-> encoded_offset]
TheReader ==
    [state |-> TheState, inner_pos |-> inner_pos, buf |-> buf,
     buf_start |-> buf_start, buf_end |-> buf_end, bufv |-> bufv,
     wrapped |-> wrapped, desync |-> desync]

SetReader(rd) ==
    /\ stack' = rd.state.stack
    /\ root_hash' = rd.state.root_hash
    /\ content_length' = rd.state.content_length
    /\ length_verified' = rd.state.length_verified
    /\ content_position' = rd.state.content_position
    /\ encoded_offset' = rd.state.encoded_offset
    /\ inner_pos' = rd.inner_pos
    /\ buf' = rd.buf
    /\ buf_start' = rd.buf_start
    /\ buf_end' = rd.buf_end
    /\ bufv' = rd.bufv
    /\ wrapped' = rd.wrapped
    /\ desync' = rd.desync

TheInput == make_input(input_len)

\* a hash with a bit flipped: no hash_node value starts with 2 or 3
flip_hash(h) == [h EXCEPT ![1] = @ + 2]

\* a parent's hash or a chunk's byte with a bit flipped (make_input has no
\* byte 0)
flip_cell(cell) == IF Len(cell) > 1 THEN flip_hash(cell) ELSE <<0>>

\* the encoding with one cell altered: the header (it then declares any
\* other length), a hash of a parent, or a byte of a chunk
Corruptions(enc) ==
    {[enc EXCEPT ![1] = <<len>>] : len \in (0..U64_MAX) \ {enc[1][1]}}
    \cup {[enc EXCEPT ![i] = flip_cell(@)] : i \in 2..Len(enc)}

\* root hashes that are not the content's
WrongHashes(X) ==
    {flip_hash(bao_hash(X)), subtree_hash(X, 0, Len(X), NotRoot)}

StatusOf(r) == IF r.kind = "Panic" THEN "panic" ELSE IF r.kind = "Hang" THEN "hang" ELSE "ok"

NoCall == [op |-> "new", kind |-> "Ok", val |-> 0, err |-> "", msg |-> ""]

\* no command of the command line tool is being run
NoCli == [cmd |-> "none"]

InitReader(C, h, enc, t) ==
    /\ input_len = C
    /\ tamper = t
    /\ encoded = enc
    /\ stack = <<>>
    /\ root_hash = h
    /\ content_length = None
    /\ length_verified = FALSE
    /\ content_position = 0
    /\ encoded_offset = 0
    /\ inner_pos = 0
    /\ buf = [i \in 1..CHUNK_SIZE |-> <<0>>]
    /\ buf_start = 0
    /\ buf_end = 0
    /\ bufv = [i \in 1..CHUNK_SIZE |-> FALSE]
    /\ wrapped = FALSE
    /\ status = "ok"
    /\ last = NoCall
    /\ delivered = <<>>
    /\ eof_at = None
    /\ history = "new"
    /\ seek_target = None
    /\ unverified_out = FALSE
    /\ root_matched = FALSE
    /\ desync = FALSE
    /\ events = <<>>

\* Reader::new(inner, root_hash) on a valid encoding and the true hash
InitValid ==
    \E C \in 0..U64_MAX :
        InitReader(C, bao_hash(make_input(C)), encode(make_input(C)), "none")

\* ... on a valid encoding and a wrong hash
InitWrongHash ==
    \E C \in 0..U64_MAX : \E h \in WrongHashes(make_input(C)) :
        InitReader(C, h, encode(make_input(C)), "hash")

\* ... on an encoding with one cell altered, and the true hash
InitCorrupt ==
    \E C \in 0..U64_MAX : \E enc \in Corruptions(encode(make_input(C))) :
        InitReader(C, bao_hash(make_input(C)), enc, "encoding")

Init ==
    /\ overflow_checks \in BOOLEAN
    /\ InitValid
    /\ cli = NoCli

\* destination sizes of read()
ReadSizes == {1, CHUNK_SIZE}

\* arguments of seek()
\* positions at and next to the chunk boundaries, and the largest one
SeekTargets ==
    {n \in 0..U64_MAX : n % CHUNK_SIZE \in {0, 1, CHUNK_SIZE - 1}} \cup {U64_MAX}
SeekOffsets == {I64_MIN, 0 - 1, 0, 1, I64_MAX}
SeekInputs ==
    {SeekStart(n) : n \in SeekTargets}
    \cup {SeekEnd(n) : n \in SeekOffsets}
    \cup {SeekCurrent(n) : n \in SeekOffsets}

\* reader.read(&mut [0; n])
Returned(r) ==
    /\ SetReader(r.rd)
    /\ status' = StatusOf(r)

Read_k(r) ==
    /\ Returned(r)
    /\ last' = [op |-> "read", kind |-> r.kind, val |-> r.val, err |-> r.err,
                msg |-> r.msg]
    /\ history' = IF history = "new" THEN "read1"
                  ELSE IF history = "read1" THEN "reads" ELSE history
    /\ delivered' = delivered \o r.out
    /\ eof_at' = IF eof_at = None /\ r.kind = "Ok" /\ r.val = 0
                 THEN Len(delivered) ELSE eof_at
    /\ unverified_out' = (unverified_out
                          \/ \E i \in (buf_start + 1)..(buf_start + Len(r.out)) :
                                ~bufv[i] \/ i > buf_end)

Read(n) ==
    /\ status = "ok"
    /\ Read_k(read(TheReader, n))
    /\ UNCHANGED <<overflow_checks, encoded, input_len, tamper, seek_target,
                   root_matched, cli, events>>

\* reader.seek(pos)
Seek_k(r) ==
    /\ Returned(r)
    /\ last' = [op |-> "seek", kind |-> r.kind, val |-> r.val, err |-> r.err,
                msg |-> r.msg]
    /\ seek_target' = IF r.kind = "Ok" THEN r.target ELSE None
    /\ delivered' = <<>>
    /\ eof_at' = None
    /\ history' = IF history = "new" /\ r.kind = "Ok" THEN "seek_first" ELSE "other"

Seek(pos) ==
    /\ status = "ok"
    /\ Seek_k(seek(TheReader, pos))
    /\ UNCHANGED <<overflow_checks, encoded, input_len, tamper, unverified_out,
                   root_matched, cli, events>>

Next ==
    \/ \E n \in ReadSizes : Read(n)
    \/ \E pos \in SeekInputs : Seek(pos)

\* a reader of a valid encoding, given the content's hash
Spec == Init /\ [][Next]_vars

\* a reader of a valid encoding, given another hash
InitHash == overflow_checks \in BOOLEAN /\ InitWrongHash /\ cli = NoCli
SpecWrongHash == InitHash /\ [][Next]_vars

\* a reader of an encoding with one cell altered, read and never seeked
InitAltered == overflow_checks \in BOOLEAN /\ InitCorrupt /\ cli = NoCli
NextRead == \E n \in ReadSizes : Read(n)
SpecCorrupt == InitAltered /\ [][NextRead]_vars

\* a reader of an encoding with one cell altered
SpecCorruptSeek == InitAltered /\ [][Next]_vars

\* ------------------------------------------------- a State driven directly
\* A caller of State's public methods over the combined encoding: it feeds
\* the header, parents and subtree hashes, the right ones (taken from the
\* encoding at encoded_offset) or wrong ones, and seeks.
SetState(st) ==
    /\ stack' = st.stack
    /\ root_hash' = st.root_hash
    /\ content_length' = st.content_length
    /\ length_verified' = st.length_verified
    /\ content_position' = st.content_position
    /\ encoded_offset' = st.encoded_offset

\* the cells of the encoding at offset ..< offset + n, or none past its end
CellsAt(offset, n) ==
    IF offset + n <= Len(encoded) THEN SubSeq(encoded, offset + 1, offset + n)
    ELSE <<>>

\* headers a caller may feed: any length
HeaderInputs == {<<<<len>>>> : len \in 0..U64_MAX}

\* parents a caller may feed: the two cells at encoded_offset and a wrong pair
ParentInputs ==
    (IF CellsAt(encoded_offset, PARENT_SIZE) # <<>>
     THEN {CellsAt(encoded_offset, PARENT_SIZE)} ELSE {})
    \cup {<<<<2>>, <<2>>>>}

\* hashes a caller may feed: of the chunk at encoded_offset, the expected hash
\* itself (a subtree taken on trust), and a wrong one
SubtreeInputs ==
    IF stack = <<>> \/ content_length = None THEN {<<2>>}
    ELSE {hash_node(CellsAt(encoded_offset, Min(Subtree_len(Top(stack)), CHUNK_SIZE)),
                    finalization(Top(stack), content_length)),
          Top(stack).hash,
          flip_hash(Top(stack).hash)}

\* the result of a call of a State method
Called(op, st, res, val, msg) ==
    /\ SetState(st)
    /\ last' = [op |-> op, kind |-> res, val |-> val, err |-> "", msg |-> msg]
    /\ status' = IF res = "Panic" THEN "panic" ELSE "ok"

\* whether the top of the stack is the root and `hash` is what it expects
MatchesRoot(hash) ==
    /\ stack # <<>>
    /\ is_root(Top(stack), content_length)
    /\ hash = Top(stack).hash

StateUnchanged ==
    UNCHANGED <<overflow_checks, encoded, inner_pos, buf, buf_start, buf_end,
                input_len, tamper, bufv, delivered, eof_at, history,
                seek_target, unverified_out, desync, cli, events>>

FeedHeader_k(r) == Called("feed_header", r.st, r.res, 0, r.msg)
FeedHeader(header) ==
    /\ status = "ok"
    /\ FeedHeader_k(feed_header(TheState, header))
    /\ UNCHANGED <<wrapped, root_matched>>
    /\ StateUnchanged

FeedParent_k(r) == Called("feed_parent", r.st, r.res, 0, r.msg)
FeedParent(parent) ==
    /\ status = "ok"
    /\ FeedParent_k(feed_parent(TheState, parent))
    /\ root_matched' =
           (root_matched
            \/ (/\ content_length # None
                /\ stack # <<>>
                /\ MatchesRoot(hash_node(parent, finalization(Top(stack), content_length)))
                /\ last'.kind = "Ok"))
    /\ UNCHANGED wrapped
    /\ StateUnchanged

FeedSubtree_k(r) == Called("feed_subtree", r.st, r.res, 0, r.msg)
FeedSubtree(hash) ==
    /\ status = "ok"
    /\ FeedSubtree_k(feed_subtree(TheState, hash))
    /\ root_matched' = (root_matched \/ (MatchesRoot(hash) /\ last'.kind = "Ok"))
    /\ UNCHANGED wrapped
    /\ StateUnchanged

SeekNext_k(r) ==
    /\ Called("seek_next", r.st, IF r.next.kind = "Panic" THEN "Panic" ELSE "Ok",
              r.offset, r.next.msg)
    /\ wrapped' = (wrapped \/ r.wrapped)
SeekNext(target) ==
    /\ status = "ok"
    /\ SeekNext_k(seek_next(TheState, target))
    /\ UNCHANGED root_matched
    /\ StateUnchanged

NextState ==
    \/ \E header \in HeaderInputs : FeedHeader(header)
    \/ \E parent \in ParentInputs : FeedParent(parent)
    \/ \E hash \in SubtreeInputs : FeedSubtree(hash)
    \/ \E target \in SeekTargets : SeekNext(target)

\* State::new(hash(X)), driven over encode(X)
SpecState == Init /\ [][NextState]_vars

\* ---------------------------------------------- a State driven in sequence
\* The loop of Reader::read taken one turn at a time, over the combined
\* encoding: ask read_next, read what it asks for at encoded_offset and feed
\* it; no turn is taken once read_next returns Done.
Serve(st, ev) ==
    IF ev.kind = "Header" THEN feed_header(st, CellsAt(0, HEADER_SIZE))
    ELSE IF ev.kind = "Subtree"
    THEN feed_parent(st, CellsAt(st.encoded_offset, PARENT_SIZE))
    ELSE IF ev.kind = "Chunk"
    THEN feed_subtree(st, hash_node(CellsAt(st.encoded_offset, ev.size),
                                    ev.finalization))
    ELSE [st |-> st, res |-> "Panic", msg |-> ev.msg]

Turn_fed(ev, r, w) ==
    /\ Called(IF ev.kind = "Header" THEN "feed_header"
              ELSE IF ev.kind = "Subtree" THEN "feed_parent"
              ELSE IF ev.kind = "Chunk" THEN "feed_subtree" ELSE "read_next",
              r.st, r.res, 0, r.msg)
    /\ events' = Append(events, ev)
    /\ wrapped' = (wrapped \/ w)

Turn_k(n) ==
    /\ n.ev.kind # "Done"
    /\ Turn_fed(n.ev, Serve(TheState, n.ev), n.wrapped)

Turn ==
    /\ status = "ok"
    /\ Turn_k(read_next(TheState))
    /\ UNCHANGED <<overflow_checks, encoded, inner_pos, buf, buf_start, buf_end,
                   input_len, tamper, bufv, delivered, eof_at, history,
                   seek_target, unverified_out, root_matched, desync, cli>>

\* State::new(hash(X)), driven over encode(X) from the start to Done
SpecSequential == Init /\ [][Turn]_vars

\* ------------------------------------------------- the command line tool
\* bao_bin's commands that stream (src/bao_bin/src/main.rs).  An io::Result
\* is IoOk or an error [side, kind]: the side of io::copy it came from
\* ("read": the source, a Reader or the input file; "write": the output
\* file), or "step" for a step other than io::copy.
IoOk == [side |-> "", kind |-> "Ok"]
IoErr(side, kind) == [side |-> side, kind |-> kind]
\* the command has not ended yet
Running == [side |-> "", kind |-> "Running"]

\* io::ErrorKind of a failed write(2) on the output
WriteErrorKinds == {"BrokenPipe", "WriteZero", "PermissionDenied", "Other"}
\* io::ErrorKind of a failed read: the decoder's own errors and those of a
\* read(2) on the input, which does not fail with EPIPE
ReadErrorKinds == {"InvalidData", "UnexpectedEof", "Other"}
\* io::ErrorKind of a failed step that is no io::copy
StepErrorKinds == {"BrokenPipe", "InvalidData", "NotFound", "Other"}

CopyResults ==
    {IoOk} \cup {IoErr("read", k) : k \in ReadErrorKinds}
           \cup {IoErr("write", k) : k \in WriteErrorKinds}
StepResults == {IoOk} \cup {IoErr("step", k) : k \in StepErrorKinds}

\* an allow_broken_pipe that lets every error pass for success
allow_broken_pipe_All(result) == IoOk

\* allow_broken_pipe
allow_broken_pipe(result) ==
    IF result = IoOk THEN IoOk
    ELSE IF result.kind = "BrokenPipe" THEN IoOk
    ELSE result

\* What a run meets: `pre` is the first error of the steps before the copying
\* (parse_hash, metadata, confirm_real_file, seek), `mapped`: both files were
\* memory-mapped, `start`: --start was given, `whole`: the result of the
\* whole-buffer decode, `copy`: of io::copy, `finish`: of writer.finish().
\* fn encode
cli_encode(env) ==
    IF env.pre # IoOk THEN env.pre
    ELSE IF env.mapped THEN IoOk
    ELSE IF env.copy # IoOk THEN env.copy
    ELSE env.finish

\* fn decode
cli_decode(env) ==
    IF env.pre # IoOk THEN env.pre
    ELSE IF ~env.start /\ env.mapped THEN env.whole
    ELSE allow_broken_pipe(env.copy)

\* fn slice
cli_slice(env) == IF env.pre # IoOk THEN env.pre ELSE env.copy

\* fn decode_slice
cli_decode_slice(env) ==
    IF env.pre # IoOk THEN env.pre ELSE allow_broken_pipe(env.copy)

\* fn main: the command's result is the process's
cli_main(cmd, env) ==
    IF cmd = "encode" THEN cli_encode(env)
    ELSE IF cmd = "decode" THEN cli_decode(env)
    ELSE IF cmd = "slice" THEN cli_slice(env)
    ELSE cli_decode_slice(env)

Commands == {"encode", "decode", "slice", "decode-slice"}

InitCli ==
    /\ overflow_checks = FALSE
    /\ InitReader(0, bao_hash(make_input(0)), encode(make_input(0)), "none")
    /\ \E cmd \in Commands, pre \in StepResults, copy \in CopyResults,
          mapped \in BOOLEAN, start \in BOOLEAN :
          \E whole \in (IF cmd = "decode" /\ mapped /\ ~start
                        THEN StepResults ELSE {IoOk}),
             finish \in (IF cmd = "encode" /\ ~mapped
                         THEN StepResults ELSE {IoOk}) :
              /\ (start => cmd = "decode")
              /\ (mapped => cmd \in {"encode", "decode"})
              /\ cli = [cmd |-> cmd,
                        env |-> [pre |-> pre, mapped |-> mapped, start |-> start,
                                 whole |-> whole, copy |-> copy, finish |-> finish],
                        result |-> Running]

CliRun_k(result) == cli' = [cli EXCEPT !.result = result]
CliRun ==
    /\ cli.result = Running
    /\ CliRun_k(cli_main(cli.cmd, cli.env))
    /\ UNCHANGED <<overflow_checks, encoded, stack, root_hash, content_length,
                   length_verified, content_position, encoded_offset, inner_pos,
                   buf, buf_start, buf_end, input_len, tamper, bufv, wrapped,
                   status, last, delivered, eof_at, history, seek_target,
                   unverified_out, root_matched, desync, events>>

\* one run of one command
SpecCli == InitCli /\ [][CliRun]_vars

\* ------------------------------------------------------------ properties
IsPrefix(a, b) == Len(a) <= Len(b) /\ SubSeq(b, 1, Len(a)) = a

\* the cells the calls since the last seek delivered before the first Ok(0)
Output == IF eof_at = None THEN delivered ELSE SubSeq(delivered, 1, eof_at)

\* X[min(t, C) ..]
ContentFrom(t) == ChunkCells(TheInput, Min(t, input_len), input_len)

\* C1: a fresh Reader over encode(X), given hash(X) and only read from, returns
\* no error, and what it has delivered when read first returns Ok(0) is X.
C1_DecodingRoundTrip ==
    (tamper = "none" /\ history \in {"read1", "reads"})
        => /\ last.kind = "Ok"
           /\ eof_at # None => Output = TheInput

\* C2: a fresh Reader whose first call is a seek and which is then only read
\* from returns no error, and what it has delivered when read first returns
\* Ok(0) is X[min(s, C) ..]: nothing when s is at or past the end.
C2_FreshSeekThenRead ==
    (tamper = "none" /\ history = "seek_first")
        => /\ last.kind = "Ok"
           /\ eof_at # None => Output = ContentFrom(seek_target)

\* C3: after a seek that follows other calls on the same Reader, the reads
\* deliver what a fresh Reader delivers after that seek alone: cells of
\* X[min(s, C) ..] in order, and all of them by the first Ok(0).
C3_RepeatedSeeks ==
    (tamper = "none" /\ history = "other" /\ seek_target # None)
        => /\ IsPrefix(Output, ContentFrom(seek_target))
           /\ eof_at # None => Output = ContentFrom(seek_target)

\* C4: a Reader given a hash other than hash(X) delivers no cell, never
\* verifies the length, has no call return Ok, and its first read returns an
\* InvalidData error.
C4_WrongRootHashRejected ==
    tamper = "hash"
        => /\ delivered = <<>>
           /\ ~length_verified
           /\ last.op # "new" => last.kind = "Err"
           /\ history = "read1" => last.err = "InvalidData"

\* a first read of a content of several chunks was refused for the hash
C4_Witness ==
    /\ tamper = "hash"
    /\ history = "read1"
    /\ last.err = "InvalidData"
    /\ input_len > CHUNK_SIZE

\* C5: every read of an encoding with one altered cell ends in an InvalidData
\* or UnexpectedEof error; none returns Ok, so the reading never completes.
C5_CorruptionDetected ==
    (tamper = "encoding" /\ last.op = "read")
        => /\ last.kind = "Err"
           /\ last.err \in {"InvalidData", "UnexpectedEof"}
           /\ eof_at = None

\* C6: the cells of buf between buf_start and buf_end are cells of a chunk
\* that feed_subtree accepted, and read copies no other cell to its caller.
C6_NoUnverifiedByteDelivered ==
    /\ \A i \in (buf_start + 1)..buf_end : bufv[i]
    /\ ~unverified_out

\* C7: no call of a Reader panics, overruns its caller or wraps an integer.
C7_NoPanicNoOverflow == status = "ok" /\ ~wrapped

\* C8: seek_next(t) leaves position() = t whatever it returns, so a seek that
\* returns Ok returns the target it computed and leaves the position there.
C8_SeekRecordsTarget ==
    /\ (last.op = "seek" /\ last.kind = "Ok")
           => last.val = seek_target /\ content_position = seek_target
    /\ length_verified
           => \A t \in 0..U64_MAX :
                 LET r == seek_next(TheState, t)
                 IN r.next.kind # "Panic" => position(r.st) = t

\* C9: once seek_next(t) has returned Done, a second seek_next(t) returns the
\* same offset and Done and leaves the State as the first call left it.
C9_SeekNextIdempotent ==
    length_verified
        => \A t \in 0..U64_MAX :
              LET r1 == seek_next(TheState, t)
                  r2 == seek_next(r1.st, t)
              IN r1.next.kind = "Done"
                     => r2.next.kind = "Done" /\ r2.offset = r1.offset /\ r2.st = r1.st

\* C10: the stack never holds more than MAX_DEPTH subtrees: no push of
\* feed_parent finds it full.
C10_StackWithinMaxDepth ==
    /\ Len(stack) <= MAX_DEPTH
    /\ ~(status = "panic" /\ last.msg = "ArrayVec: capacity exceeded in push")

\* the top of the stack is a parent node and `parent` hashes to what it expects
ParentMatches(parent) ==
    /\ content_length # None
    /\ stack # <<>>
    /\ Subtree_len(Top(stack)) > CHUNK_SIZE
    /\ hash_node(parent, IF Top(stack).start = 0 /\ Top(stack).end = content_length
                         THEN Root(content_length) ELSE NotRoot) = Top(stack).hash

\* C11: feed_parent with bytes that hash to what the top subtree [start, end)
\* expects succeeds and replaces the top by the right child [split, end) with
\* the second hash and, above it, the left child [start, split) with the first
\* hash, split = start + left_len(end - start); encoded_offset grows by
\* PARENT_SIZE and content_position stays.
C11_FeedParentEffect ==
    \A parent \in ParentInputs :
        ParentMatches(parent)
            => LET cur == Top(stack)
                   split == cur.start + left_len(cur.end - cur.start)
                   r == feed_parent(TheState, parent)
               IN /\ r.res = "Ok"
                  /\ r.st.stack =
                         Pop(stack)
                         \o <<[hash |-> parent[2], start |-> split, end |-> cur.end],
                              [hash |-> parent[1], start |-> cur.start, end |-> split]>>
                  /\ r.st.encoded_offset = encoded_offset + PARENT_SIZE
                  /\ r.st.content_position = content_position

\* C12: feed_subtree with the hash the top subtree expects succeeds, pops that
\* subtree and no other, sets content_position to its end and adds to
\* encoded_offset its encoded size: len + PARENT_SIZE * (chunks - 1) for
\* len > 0 and 0 for len = 0.
C12_FeedSubtreeEffect ==
    stack # <<>>
        => LET cur == Top(stack)
               len == cur.end - cur.start
               chunks == (len + CHUNK_SIZE - 1) \div CHUNK_SIZE
               r == feed_subtree(TheState, cur.hash)
           IN /\ r.res = "Ok"
              /\ r.st.stack = SubSeq(stack, 1, Len(stack) - 1)
              /\ r.st.content_position = cur.end
              /\ r.st.encoded_offset =
                     encoded_offset
                     + (IF len > 0 THEN len + PARENT_SIZE * (chunks - 1) ELSE 0)

\* a subtree of several chunks has been popped from above another subtree,
\* which is now on top
C12_Witness ==
    /\ last.op = "feed_subtree"
    /\ last.kind = "Ok"
    /\ Len(stack) = 1
    /\ content_position = Top(stack).start
    /\ content_position > CHUNK_SIZE

\* C13: length_verified is set only by a match of the root node: it is true
\* only once a feed has matched the subtree [0, content_length), and no feed
\* that matches another subtree finds it false.
C13_LengthVerifiedOnlyByRoot ==
    /\ length_verified => root_matched
    /\ (stack # <<>> /\ content_length # None /\ ~length_verified)
           => /\ Top(stack).start = 0
              /\ Top(stack).end = content_length
    /\ \A hash \in SubtreeInputs :
           (feed_subtree(TheState, hash).res = "Ok" /\ ~MatchesRoot(hash))
               => length_verified
    /\ \A parent \in ParentInputs :
           (ParentMatches(parent) /\ Top(stack).start > 0) => length_verified

\* a feed_parent has matched a node that is not the root
C13_Witness ==
    /\ last.op = "feed_parent"
    /\ last.kind = "Ok"
    /\ Len(stack) = 2
    /\ stack[2].start > 0
    /\ length_verified
    /\ root_matched

\* C14: len_next returns Left(content_length) exactly when the header has been
\* fed and length_verified holds; before the header it returns Right(Header);
\* between the two it returns the event of the root subtree: Subtree if
\* content_length > CHUNK_SIZE, else Chunk, with finalization
\* Root(content_length).
C14_LenNextOnlyWhenVerified ==
    LET l == len_next(TheState)
    IN /\ l.left <=> (content_length # None /\ length_verified)
       /\ l.left => l.len = content_length
       /\ content_length = None => (~l.left /\ l.next = Header)
       /\ (content_length # None /\ ~length_verified)
              => /\ l.next.kind = IF content_length > CHUNK_SIZE THEN "Subtree"
                                  ELSE "Chunk"
                 /\ l.next.finalization = Root(content_length)
                 /\ l.next.size = content_length
                 /\ l.next.skip = 0

\* a header of several chunks is fed, a parent has been refused
C14_Witness ==
    /\ content_length # None
    /\ content_length > CHUNK_SIZE
    /\ ~length_verified
    /\ last.op = "feed_parent"
    /\ last.kind = "Err"

\* C15: on a State with no header, feed_header sets content_length to the
\* header's value, the stack to the one subtree [0, content_length) expecting
\* root_hash, encoded_offset to HEADER_SIZE, content_position to 0 and leaves
\* length_verified false; on a State with a header it panics and changes
\* nothing.
C15_FeedHeaderEffect ==
    \A header \in HeaderInputs :
        LET r == feed_header(TheState, header)
        IN IF content_length = None
           THEN /\ r.res = "Ok"
                /\ r.st = [stack |-> <<[hash |-> root_hash, start |-> 0,
                                        end |-> header[1][1]]>>,
                           root_hash |-> root_hash,
                           content_length |-> header[1][1],
                           length_verified |-> FALSE,
                           content_position |-> 0,
                           encoded_offset |-> HEADER_SIZE]
           ELSE /\ r.res = "Panic"
                /\ r.st = TheState

\* a header of several chunks, not the content's own, has been fed
C15_Witness ==
    /\ last.op = "feed_header"
    /\ last.kind = "Ok"
    /\ content_length > CHUNK_SIZE
    /\ content_length # input_len
    /\ stack = <<[hash |-> root_hash, start |-> 0, end |-> content_length]>>

\* C16: whenever the Reader reads a header, a parent or a chunk from its inner
\* source, the source is at State's encoded_offset (0 for the header).
C16_InnerReadsFollowState == ~desync

\* C17: for SeekFrom::End(off) and SeekFrom::Current(off) the target is the
\* verified length, respectively the position, plus off, as integers; if that
\* sum is negative or above U64_MAX the seek returns InvalidInput and leaves
\* the Reader as the length verification left it, else the sum is the target
\* it seeks to.
C17_SeekTargetChecked ==
    status = "ok"
        => \A pos \in SeekInputs \ {SeekStart(n) : n \in SeekTargets} :
              LET l == seek_len_loop(TheReader)
                  r == seek(TheReader, pos)
                  sum == pos.n + IF pos.from = "End" THEN l.val
                                 ELSE l.rd.state.content_position
              IN l.kind = "Ok"
                     => IF sum < 0 \/ sum > U64_MAX
                        THEN r.kind = "Err" /\ r.err = "InvalidInput" /\ r.rd = l.rd
                        ELSE r.target = sum /\ r.err # "InvalidInput"

\* a seek on a content of several chunks was refused for its target
C17_Witness ==
    /\ last.op = "seek"
    /\ last.kind = "Err"
    /\ last.err = "InvalidInput"
    /\ length_verified
    /\ input_len > CHUNK_SIZE
    /\ stack # <<>>

\* the command streams decoded content through io::copy
Streams ==
    /\ cli.env.pre = IoOk
    /\ \/ cli.cmd = "decode-slice"
       \/ cli.cmd = "decode" /\ (cli.env.start \/ ~cli.env.mapped)

\* C18: when decode or decode-slice streams the content, a write error of kind
\* BrokenPipe ends the command in success and every other error of the copy
\* ends it in that error; an error before the copy, or of the whole-buffer
\* decode, ends it in that error; encode and slice end in the first error
\* they meet, BrokenPipe included.
C18_BrokenPipeHandling ==
    (cli.cmd \in Commands /\ cli.result # Running)
        => LET env == cli.env
           IN /\ env.pre # IoOk => cli.result = env.pre
              /\ (Streams /\ env.copy = IoErr("write", "BrokenPipe"))
                     => cli.result = IoOk
              /\ (Streams /\ env.copy # IoErr("write", "BrokenPipe"))
                     => cli.result = env.copy
              /\ (cli.cmd = "decode" /\ env.pre = IoOk /\ ~Streams)
                     => cli.result = env.whole
              /\ (cli.cmd = "slice" /\ env.pre = IoOk) => cli.result = env.copy
              /\ (cli.cmd = "encode" /\ env.pre = IoOk /\ ~env.mapped)
                     => cli.result = IF env.copy # IoOk THEN env.copy ELSE env.finish
              /\ (cli.cmd = "encode" /\ env.pre = IoOk /\ env.mapped)
                     => cli.result = IoOk

\* a decode that streamed into a closed pipe has ended in success
C18_Witness ==
    /\ cli.cmd = "decode"
    /\ cli.result = IoOk
    /\ Streams
    /\ cli.env.copy = IoErr("write", "BrokenPipe")

\* C20: on a Reader of a valid encoding that was never seeked, a read with the
\* buffer empty returns 0 only if no content remains at the position and
\* otherwise returns the next min(rest of the chunk, n) cells of the content;
\* and once a read has returned 0, the later reads deliver nothing.
C20_ReadContract ==
    (tamper = "none" /\ history \in {"new", "read1", "reads"} /\ status = "ok")
        => /\ eof_at # None => Len(delivered) = eof_at
           /\ buf_start = buf_end
                => \A n \in ReadSizes :
                      LET r == read(TheReader, n)
                          rest == Min(CHUNK_SIZE, input_len - content_position)
                      IN r.kind = "Ok"
                            => /\ r.val = 0 => content_position >= input_len
                               /\ r.val > 0
                                    => /\ r.val = Min(rest, n)
                                       /\ r.out = ChunkCells(TheInput, content_position,
                                                             content_position + r.val)

\* the encoded sizes of the subtrees stack[from .. Len(stack)], summed
RECURSIVE PoppedSize(_, _)
PoppedSize(stack_, from) ==
    IF from > Len(stack_) THEN 0
    ELSE encoded_subtree_size(Subtree_len(stack_[from])) + PoppedSize(stack_, from + 1)

\* the stack holds a subtree that ends at or before the target
EndsBefore(stack_, target) == \E i \in 1..Len(stack_) : stack_[i].end <= target

\* C21: when seek_next(target) returns Done with the length verified, either
\* the stack is empty and target >= content_length, or the top subtree
\* contains the target, within its first chunk; no subtree that ends at or
\* before the target is left on the stack; and encoded_offset has grown by
\* the encoded size of each subtree popped.
C21_SeekNextPostcondition ==
    (status = "ok" /\ length_verified)
        => \A target \in SeekTargets :
              LET r == seek_next(TheState, target)
                  from == seek_next_reset(TheState, target, content_length).st
                  after == r.st.stack
              IN r.next.kind = "Done"
                    => /\ \/ after = <<>> /\ target >= content_length
                          \/ /\ after # <<>>
                             /\ Top(after).start <= target
                             /\ target < Top(after).end
                             /\ target < Top(after).start + CHUNK_SIZE
                       /\ ~EndsBefore(after, target)
                       /\ after = SubSeq(from.stack, 1, Len(after))
                       /\ r.st.encoded_offset =
                              from.encoded_offset + PoppedSize(from.stack, Len(after) + 1)

\* the events read_next, len_next and seek_next would return now
EventsNow ==
    {read_next(TheState).ev, len_next(TheState).next}
    \cup {seek_next(TheState, target).next : target \in SeekTargets}

\* C22: every Chunk event that read_next, len_next or seek_next returns has
\* skip <= size <= CHUNK_SIZE, and the Reader has
\* buf_start <= buf_end <= CHUNK_SIZE.
C22_ChunkSkipWithinChunk ==
    status = "ok"
        => /\ buf_start <= buf_end
           /\ buf_end <= CHUNK_SIZE
           /\ \A ev \in EventsNow :
                  ev.kind = "Chunk" => (ev.skip <= ev.size /\ ev.size <= CHUNK_SIZE)

\* C23: on a content of one chunk, 0 < C <= CHUNK_SIZE, a fresh Reader whose
\* first call is a seek to s <= C and which is then only read from returns no
\* error and delivers cells of X[s ..] only, all of them by the time a read
\* returns Ok(0).
C23_SingleChunkSeek ==
    (/\ history = "seek_first"
     /\ 0 < input_len
     /\ input_len <= CHUNK_SIZE
     /\ seek_target <= input_len)
        => /\ last.kind = "Ok"
           /\ IsPrefix(delivered, ContentFrom(seek_target))
           /\ eof_at # None => delivered = ContentFrom(seek_target)

\* len is a power of two times CHUNK_SIZE
IsPow2Chunks(len) == \E k \in 0..WordBits : len = CHUNK_SIZE * Pow2(k)

\* [start, end) is the left child of a node of the tree over [lo, hi)
RECURSIVE IsLeftChildWithin(_, _, _, _)
IsLeftChildWithin(start, end, lo, hi) ==
    IF hi - lo <= CHUNK_SIZE THEN FALSE
    ELSE LET split == lo + left_len(hi - lo)
         IN IF start = lo /\ end = split THEN TRUE
            ELSE IF end <= split THEN IsLeftChildWithin(start, end, lo, split)
            ELSE IF start >= split THEN IsLeftChildWithin(start, end, split, hi)
            ELSE FALSE

\* C24: once the header is fed, the subtrees on the stack are contiguous from
\* the top down to content_length (each entry ends where the one below it
\* starts, the bottom one ends at content_length), each has start < end but
\* the lone root [0, 0) of an empty content, each left child's length is a
\* power of two times CHUNK_SIZE, and content_position >= top.start.
C24_StackShape ==
    (status = "ok" /\ content_length # None)
        => /\ stack # <<>> => stack[1].end = content_length
           /\ \A i \in 2..Len(stack) : stack[i].end = stack[i - 1].start
           /\ \A i \in 1..Len(stack) :
                  \/ stack[i].start < stack[i].end
                  \/ /\ content_length = 0
                     /\ Len(stack) = 1
                     /\ stack[1].start = 0
                     /\ stack[1].end = 0
           /\ \A i \in 1..Len(stack) :
                  IsLeftChildWithin(stack[i].start, stack[i].end, 0, content_length)
                      => IsPow2Chunks(Subtree_len(stack[i]))
           /\ stack # <<>> => content_position >= Top(stack).start

\* a seek into the right half, then its parent fed: a left child that does
\* not start at 0 is on top of its sibling
C24_Witness ==
    /\ status = "ok"
    /\ last.op = "feed_parent"
    /\ last.kind = "Ok"
    /\ Len(stack) = 2
    /\ Top(stack).start > 0
    /\ content_position > Top(stack).start
    /\ IsLeftChildWithin(Top(stack).start, Top(stack).end, 0, content_length)

\* the parent nodes that precede the subtree [start, end) in the pre-order
\* layout of the tree over [lo, hi)
RECURSIVE ParentsBefore(_, _, _, _)
ParentsBefore(start, end, lo, hi) ==
    IF (start = lo /\ end = hi) \/ hi - lo <= CHUNK_SIZE THEN 0
    ELSE LET split == lo + left_len(hi - lo)
         IN IF end <= split THEN 1 + ParentsBefore(start, end, lo, split)
            ELSE 1 + ((split - lo) \div CHUNK_SIZE - 1)
                   + ParentsBefore(start, end, split, hi)

\* C25: once the header is fed, with a subtree on the stack encoded_offset is
\* where the top subtree's encoding begins: HEADER_SIZE + top.start +
\* PARENT_SIZE * (the parent nodes before it in pre-order); with the stack
\* empty it is HEADER_SIZE + C + PARENT_SIZE * (max(1, ceil(C / CHUNK_SIZE)) - 1),
\* and content_position = C when a feed has emptied the stack.
C25_EncodedOffsetTracksTop ==
    (status = "ok" /\ content_length # None)
        => IF stack # <<>>
           THEN encoded_offset =
                    HEADER_SIZE + Top(stack).start
                    + PARENT_SIZE * ParentsBefore(Top(stack).start, Top(stack).end,
                                                  0, content_length)
           ELSE /\ encoded_offset =
                       HEADER_SIZE + content_length
                       + PARENT_SIZE
                         * (Max(1, (content_length + CHUNK_SIZE - 1) \div CHUNK_SIZE) - 1)
                /\ last.op = "feed_subtree" => content_position = content_length

\* a seek has popped a subtree of several chunks: two parents or more lie
\* before the top subtree
C25_Witness ==
    /\ status = "ok"
    /\ last.op = "seek_next"
    /\ stack # <<>>
    /\ Top(stack).start > 0
    /\ encoded_offset > HEADER_SIZE + Top(stack).start + PARENT_SIZE

\* the events of a pre-order walk of the tree over [lo, hi) within a content
\* of C cells, all with skip 0
RECURSIVE PreOrder(_, _, _)
PreOrder(lo, hi, C) ==
    LET fin == IF lo = 0 /\ hi = C THEN Root(C) ELSE NotRoot
    IN IF hi - lo <= CHUNK_SIZE THEN <<Ev("Chunk", hi - lo, 0, fin, "")>>
       ELSE LET split == lo + left_len(hi - lo)
            IN <<Ev("Subtree", hi - lo, 0, fin, "")>>
               \o PreOrder(lo, split, C) \o PreOrder(split, hi, C)

\* the sizes of the Chunk events of a sequence, summed
RECURSIVE ChunkTotal(_)
ChunkTotal(evs) ==
    IF evs = <<>> THEN 0
    ELSE (IF Top(evs).kind = "Chunk" THEN Top(evs).size ELSE 0) + ChunkTotal(Pop(evs))

\* C26: the driver that serves read_next over a valid encoding of C cells never
\* panics; the events it has served are the first of Header followed by the
\* pre-order walk of the tree over [0, C), every skip 0; content_position is
\* the total size of the chunks served (so it never decreases and the chunks
\* cover [0, C) in order, once); and read_next returns Done exactly when
\* 1 + (chunks - 1) + chunks events have been served.
C26_SequentialPreOrder ==
    LET walk == <<Header>> \o PreOrder(0, input_len, input_len)
        chunks == Max(1, (input_len + CHUNK_SIZE - 1) \div CHUNK_SIZE)
    IN /\ status = "ok"
       /\ IsPrefix(events, walk)
       /\ content_position = ChunkTotal(events)
       /\ Len(walk) = 1 + (chunks - 1) + chunks
       /\ read_next(TheState).ev.kind = "Done" <=> Len(events) = Len(walk)

\* the finalization an event about the top of stack_ has to carry
ExpectedFinalization(stack_) ==
    IF stack_ # <<>> /\ Top(stack_).start = 0 /\ Top(stack_).end = content_length
    THEN Root(content_length) ELSE NotRoot

\* ev, if it asks for a parent or a chunk, is about the top of stack_ and
\* carries its finalization; for an empty content it is the empty root chunk
RightlyFinalized(ev, stack_) ==
    ev.kind \in {"Subtree", "Chunk"}
        => /\ stack_ # <<>>
           /\ ev.finalization = ExpectedFinalization(stack_)
           /\ content_length = 0 => ev = Ev("Chunk", 0, 0, Root(0), "")

\* C27: every Subtree or Chunk event of read_next, len_next and seek_next
\* carries Root(content_length) if the top subtree is [0, content_length) and
\* NotRoot if it is not; for a content of length 0 the only such event is
\* Chunk { size: 0, skip: 0, Root(0) }.
C27_RootFinalizationUnique ==
    (status = "ok" /\ content_length # None)
        => /\ RightlyFinalized(read_next(TheState).ev, stack)
           /\ RightlyFinalized(len_next(TheState).next, stack)
           /\ \A target \in SeekTargets :
                  LET r == seek_next(TheState, target)
                  IN RightlyFinalized(r.next, r.st.stack)

\* a seek has left on top a subtree of several chunks that ends at
\* content_length and does not start at 0: its event is not the root's
C27_Witness ==
    /\ status = "ok"
    /\ last.op = "seek_next"
    /\ Len(stack) = 1
    /\ Top(stack).start > 0
    /\ Top(stack).end = content_length
    /\ read_next(TheState).ev.kind = "Subtree"
    /\ read_next(TheState).ev.finalization = NotRoot

\* C28: a feed_parent or feed_subtree that returns Err leaves the stack,
\* content_position, encoded_offset, content_length and length_verified as
\* they were, and read_next returns the same event as before the call.
C28_FailedFeedChangesNothing ==
    [][(last'.kind = "Err" /\ last'.op \in {"feed_parent", "feed_subtree"})
           => /\ stack' = stack
              /\ content_position' = content_position
              /\ encoded_offset' = encoded_offset
              /\ content_length' = content_length
              /\ length_verified' = length_verified
              /\ read_next(TheState)' = read_next(TheState)]_vars

\* below the root, with the length verified, a hash has been refused
C28_Witness ==
    /\ last.op = "feed_subtree"
    /\ last.kind = "Err"
    /\ Len(stack) = 2
    /\ length_verified
    /\ status = "ok"

\* C29: for every declared length and every seek target, no sum or difference
\* of seek_next and state_next leaves the u64 range (no wrap, no overflow
\* panic), and cast_offset refuses exactly the encoded offsets above U64_MAX
\* and passes the others on unchanged.
C29_NoWrapInSeeking ==
    (status = "ok" /\ content_length # None)
        => /\ ~wrapped
           /\ ~read_next(TheState).wrapped
           /\ read_next(TheState).ev.kind # "Panic"
           /\ \A target \in SeekTargets :
                  LET r == seek_next(TheState, target)
                      c == cast_offset(r.offset)
                  IN /\ ~r.wrapped
                     /\ r.next.kind # "Panic"
                     /\ c.ok <=> r.offset <= U64_MAX
                     /\ c.ok => c.val = r.offset

\* the height of the tree over len cells: the parents on its leftmost path
RECURSIVE Height(_)
Height(len) == IF len <= CHUNK_SIZE THEN 0 ELSE 1 + Height(left_len(len))

\* the loop of Reader::seek on the State: seek_next, then the parent it asks
\* for, read from the encoding, reaches Done within `fuel` parents
RECURSIVE SeekReachesDone(_, _, _)
SeekReachesDone(st, target, fuel) ==
    LET r == seek_next(st, target)
        f == feed_parent(r.st, CellsAt(r.st.encoded_offset, PARENT_SIZE))
    IN \/ r.next.kind = "Done"
       \/ /\ r.next.kind = "Subtree"
          /\ fuel > 0
          /\ f.res = "Ok"
          /\ Subtree_len(Top(f.st.stack)) < Subtree_len(Top(r.st.stack))
          /\ SeekReachesDone(f.st, target, fuel - 1)

\* C30: with the length verified, seek_next returns Done or Subtree, never
\* Chunk; Subtree only for a top subtree of several chunks with
\* top.start + CHUNK_SIZE <= target < top.end; and over a valid encoding the
\* loop of seek_next and feed_parent shrinks the top subtree at each turn and
\* reaches Done within as many parents as the tree is high.
C30_SeekNextAsksNoChunk ==
    (status = "ok" /\ length_verified)
        => \A target \in SeekTargets :
              LET r == seek_next(TheState, target)
                  after == r.st.stack
              IN /\ r.next.kind \in {"Done", "Subtree"}
                 /\ r.next.kind = "Subtree"
                        => /\ after # <<>>
                           /\ Subtree_len(Top(after)) > CHUNK_SIZE
                           /\ Top(after).start + CHUNK_SIZE <= target
                           /\ target < Top(after).end
                 /\ content_length = input_len
                        => SeekReachesDone(TheState, target, Height(content_length))
====
